---- MODULE Spec2Model ----
(***************************************************************************)
(* Model of the RabbitMQ resource and messaging layer (src/rmq.py):        *)
(* the management-API clients VHost, Exchange and Queue, the module-level  *)
(* configuration they are built on, and the AMQP Producer.                 *)
(***************************************************************************)
EXTENDS Integers, Sequences, FiniteSets, TLC

(***************************************************************************)
(* Bounds of the model.                                                    *)
(***************************************************************************)
\* number of HTTP requests one run of the administrative caller issues
MaxRequests == 2
\* number of close() calls the caller of a Producer makes
MaxCloses == 2
\* number of messages a Producer gets through to the broker
MaxPublished == 2
\* number of threads that call create at the same time
NumThreads == 2
\* length of the passwords given to validate_password
MaxLen == 3
\* number of entries of the policies given to validate_password
MaxRules == 2

(***************************************************************************)
(* Python values.                                                          *)
(***************************************************************************)
None == [tag |-> "None"]
Str(s) == [tag |-> "str", text |-> s]
Dict(d) == [tag |-> "dict", items |-> d]
Pair(a, b) == [tag |-> "tuple", fst |-> a, snd |-> b]

\* truthiness of an Optional[str], as `if error:` and `x or default` test it
Truthy(v) == v # None /\ v # Str("")

VARIABLES
    environ,      \* os.environ at import time: a function from names to strings
    auth,         \* RabbitMQ._auth, the class-level credential pair
    httpCount,    \* number of requests handed to the requests library
    lastRequest,  \* the request the last call issued (verb, url, json, auth, timeout), or None
    http,         \* what the HTTP layer did with that request, or None
    call,         \* the last administrative call (kind, op, args), or None
    ret,          \* the value that call returned, or None when it raised
    raised,       \* the exception class that escaped the call, or "none"
    \* one Producer object and the AMQP session behind it
    phase,        \* "none": not constructed; "live": constructed, held by the caller;
                  \* "failed": __init__ raised, no reference left; "dead": finalized
    ctor,         \* what the broker did to the construction: "none" before it, "ok",
                  \* "conn_fails" (no connection), "chan_fails" (no channel)
    connection,   \* self.connection: 0 while the attribute is unset, else the id of the
                  \* BlockingConnection it refers to
    channel,      \* self.channel: 0 while the attribute is unset, else the id of the channel
    connOpen,     \* connection.is_open
    chanOpen,     \* channel.is_open
    link,         \* the TCP session to the broker: "up", or "down" once it is lost
    opened,       \* number of BlockingConnection objects created so far
    closeCalls,   \* number of calls of connection.close()
    closeOnClosed,\* those of them made while the connection was not open
    published,    \* number of messages the broker has received
    pcall,        \* the last event on the Producer (op and arguments), or None
    pfault,       \* the exception the last operation met inside itself, or "none"
    pret,         \* the value the last operation returned, or None
    praised,      \* the exception class that escaped the last operation, or "none"
    \* concurrent create calls, one per thread
    tpc,          \* where each thread is in its call: "idle", "sent", "answered", "done"
    targs,        \* the arguments of each thread's call, or None
    wire,         \* the request each thread's requests.put has sent, or None
    answer,       \* what the HTTP layer gave each thread's requests.put, or None
    tret,         \* the value each thread's call returned, or None
    \* the POST /v1/exchanges route
    response,     \* what the route answered to the API consumer, or None
    \* the broker behind the management API
    store,        \* the resources the broker holds
    made,         \* the resources whose last create returned success, with the attributes
                  \* sent, no delete having been attempted on them since
    gone,         \* the resources whose last delete returned success, no create having
                  \* been attempted on them since
    \* one call of validate_password
    password,     \* the password, a sequence of characters
    policy,       \* the policy argument: a sequence of (key, value) pairs in the order
                  \* in which the dict declares them, or None
    pwnedApi,     \* what the breach lookup answers: "clean", "breached" or "unreachable"
    evaluated,    \* the tests that were called, in order
    verdict       \* the (err, message) pair validate_password returned, or None

adminVars == <<httpCount, lastRequest, http, call, ret, raised>>
prodVars == <<phase, ctor, connection, channel, connOpen, chanOpen, link, opened,
              closeCalls, closeOnClosed, published, pcall, pfault, pret, praised>>
concVars == <<tpc, targs, wire, answer, tret>>
routeVars == <<response>>
brokerVars == <<store, made, gone>>
pwVars == <<password, policy, pwnedApi, evaluated, verdict>>
extVars == <<routeVars, brokerVars, pwVars>>
vars == <<environ, auth, adminVars, prodVars, concVars, extVars>>

\* nothing has called the route, the broker model or validate_password
RouteIdle == response = None

BrokerIdle ==
    /\ store = {}
    /\ made = {}
    /\ gone = {}

PasswordIdle ==
    /\ password = <<>>
    /\ policy = None
    /\ pwnedApi = "clean"
    /\ evaluated = <<>>
    /\ verdict = None

(***************************************************************************)
(* Configuration: src/utils.py get_env_var and the module constants of     *)
(* src/rmq.py lines 15-32.                                                 *)
(***************************************************************************)
DefaultHttpApiPort == 15672
DefaultHttpApiTlsPort == 15671
DefaultTimeout == 10


\* str.lower() on the flag values
Lower(s) ==
    CASE s = "TRUE" -> "true"
      [] s = "True" -> "true"
      [] OTHER -> s

\* int() on the port values
int(s) ==
    CASE s = "8080" -> 8080
      [] s = "8443" -> 8443
      [] s = "15672" -> 15672
      [] s = "15671" -> 15671

\* os.environ.get(env_var) or default, for a string default (strict = False)
get_env_var(env_var, default) ==
    IF env_var \in DOMAIN environ /\ environ[env_var] # ""
    THEN environ[env_var]
    ELSE default

\* int(get_env_var(env_var, default)) for an integer default
get_env_int(env_var, default) ==
    IF env_var \in DOMAIN environ /\ environ[env_var] # ""
    THEN int(environ[env_var])
    ELSE default

HTTP_API_HOST == get_env_var("RABBITMQ_HTTP_API_HOST", "localhost")
HTTP_API_PORT == get_env_int("RABBITMQ_HTTP_API_PORT", DefaultHttpApiPort)
HTTP_API_TLS_PORT == get_env_int("RABBITMQ_HTTP_API_TLS_PORT", DefaultHttpApiTlsPort)
HTTP_API_USE_TLS == Lower(get_env_var("RABBITMQ_HTTP_API_USE_TLS", "false")) = "true"
HTTP_API_PROTOCOL == IF HTTP_API_USE_TLS THEN "https" ELSE "http"

BaseUrl(protocol, host, port) == protocol \o "://" \o host \o ":" \o ToString(port) \o "/api"

HTTP_API_BASE_URL == BaseUrl(HTTP_API_PROTOCOL, HTTP_API_HOST, HTTP_API_PORT)

AMQP_DEFAULT_VHOST == get_env_var("RABBITMQ_AMQP_DEFAULT_VHOST", "%2F")
SUPERADMIN_USER == get_env_var("RABBITMQ_SUPERADMIN_USERNAME", "guest")
SUPERADMIN_PASS == get_env_var("RABBITMQ_SUPERADMIN_PASSWORD", "guest")

\* RabbitMQ.get_auth
get_auth == auth

\* the environments the model starts from: variables unset, set, set in upper case
Environs ==
    { <<>>,
      [RABBITMQ_HTTP_API_USE_TLS |-> "true"],
      [RABBITMQ_HTTP_API_USE_TLS |-> "TRUE", RABBITMQ_HTTP_API_TLS_PORT |-> "8443"],
      [RABBITMQ_HTTP_API_USE_TLS |-> "false", RABBITMQ_HTTP_API_PORT |-> "8080"],
      [RABBITMQ_AMQP_DEFAULT_VHOST |-> "/", RABBITMQ_HTTP_API_HOST |-> ""],
      [RABBITMQ_HTTP_API_USE_TLS |-> "true", RABBITMQ_HTTP_API_PORT |-> "8080",
       RABBITMQ_AMQP_DEFAULT_VHOST |-> "/", RABBITMQ_HTTP_API_HOST |-> "rmq"] }

(***************************************************************************)
(* The HTTP layer (the requests library and the broker's management API)   *)
(* as the clients see it: either the request fails with an exception of    *)
(* requests.exceptions, or a final response with a status and a content    *)
(* comes back.                                                             *)
(***************************************************************************)
StatusCodes == {101, 200, 304, 404, 500}
JsonTexts == {"{}"}
Contents == {""} \cup JsonTexts \cup {"<html>"}
TransportFaults ==
    { [cls |-> "ConnectionError", msg |-> "Connection refused"],
      [cls |-> "ReadTimeout", msg |-> "Read timed out."],
      [cls |-> "ConnectionError", msg |-> ""] }
HttpBehaviours ==
    { [kind |-> "exc", exc |-> e] : e \in TransportFaults }
    \cup { [kind |-> "resp", status |-> s, content |-> c] : s \in StatusCodes, c \in Contents }

\* the classes below requests.exceptions.RequestException among those the calls meet
RequestExceptions == {"ConnectionError", "ReadTimeout", "HTTPError", "JSONDecodeError"}

\* raise_for_status with the client errors forgotten
raise_for_status_ServerOnly(status) ==
    IF 500 <= status /\ status < 600
    THEN [cls |-> "HTTPError", msg |-> ToString(status) \o " Server Error"]
    ELSE None

\* Response.raise_for_status: an HTTPError for 4xx and 5xx, nothing otherwise
raise_for_status(status) ==
    IF 400 <= status /\ status < 500
    THEN [cls |-> "HTTPError", msg |-> ToString(status) \o " Client Error"]
    ELSE IF 500 <= status /\ status < 600
    THEN [cls |-> "HTTPError", msg |-> ToString(status) \o " Server Error"]
    ELSE None

\* the names callers give to resources, the virtual hosts beside the default
\* one and the exchange types of the broker
Names == {"orders"}
BrokerVhosts == {"tenant"}
BrokerTypes == {"direct", "fanout"}

\* the JSON objects of the management API: a virtual host, an exchange, a
\* queue, an error
JsonObjects ==
    { [name |-> v] : v \in {"/"} \cup BrokerVhosts }
    \cup { [name |-> n, vhost |-> v, type |-> t, durable |-> d] :
             n \in Names, v \in {"/"} \cup BrokerVhosts, t \in BrokerTypes, d \in BOOLEAN }
    \cup { [name |-> n, vhost |-> v, durable |-> d] :
             n \in Names, v \in {"/"} \cup BrokerVhosts, d \in BOOLEAN }
    \cup { [error |-> "Object Not Found", reason |-> "Not Found"],
           [error |-> "bad_request", reason |-> "inequivalent arg"] }

\* the text of a JSON object as the broker writes it
Quote(s) == "\"" \o s \o "\""
dumps(o) ==
    IF "error" \in DOMAIN o
    THEN "{\"error\":" \o Quote(o.error) \o ",\"reason\":" \o Quote(o.reason) \o "}"
    ELSE "{\"name\":" \o Quote(o.name)
         \o (IF "vhost" \in DOMAIN o THEN ",\"vhost\":" \o Quote(o.vhost) ELSE "")
         \o (IF "type" \in DOMAIN o THEN ",\"type\":" \o Quote(o.type) ELSE "")
         \o (IF "durable" \in DOMAIN o
             THEN ",\"durable\":" \o (IF o.durable THEN "true" ELSE "false") ELSE "")
         \o "}"

\* the object each of these texts parses to
Parsed == [t \in { dumps(o) : o \in JsonObjects } |-> CHOOSE o \in JsonObjects : dumps(o) = t]

\* Response.json(): the parsed body, or requests.exceptions.JSONDecodeError
json(content) ==
    IF content \in JsonTexts
    THEN [value |-> Dict(content), exc |-> None]
    ELSE IF content \in DOMAIN Parsed
    THEN [value |-> Dict(Parsed[content]), exc |-> None]
    ELSE [value |-> None,
          exc |-> [cls |-> "JSONDecodeError", msg |-> "Expecting value: line 1 column 1 (char 0)"]]

(***************************************************************************)
(* The management-API clients: VHost, Exchange, Queue.                     *)
(***************************************************************************)
ExchangeTypes == {"direct"}
\* the virtual hosts a caller names: the default one, literally or as configured, or another
Vhosts == {"/", AMQP_DEFAULT_VHOST, "tenant"}

\* the outcome of a call: the value it returned, or the exception that escaped it
Returned(v) == [ret |-> v, raised |-> "none"]
Raised(cls) == [ret |-> None, raised |-> cls]

\* an except clause that names HTTPError instead of its base class
ExceptHTTPErrorOnly(e) ==
    IF e.cls = "HTTPError"
    THEN Returned(Pair(None, Str(e.msg)))
    ELSE Raised(e.cls)

\* `except requests.exceptions.RequestException as e: return None, str(e)`
ExceptRequestException(e) ==
    IF e.cls \in RequestExceptions
    THEN Returned(Pair(None, Str(e.msg)))
    ELSE Raised(e.cls)

\* a try block that returns the status code and drops the body
TryRequestNoBody(h) ==
    IF h.kind = "exc"
    THEN ExceptRequestException(h.exc)
    ELSE LET err == raise_for_status(h.status) IN
         IF err # None
         THEN ExceptRequestException(err)
         ELSE Returned(Pair(Pair(h.status, None), None))

\* the body of the try block of create, read and delete once the request is sent
\* and the HTTP layer has behaved as h
TryRequest(h) ==
    IF h.kind = "exc"
    THEN ExceptRequestException(h.exc)
    ELSE LET err == raise_for_status(h.status) IN
         IF err # None
         THEN ExceptRequestException(err)
         ELSE IF h.content # ""
              THEN LET j == json(h.content) IN
                   IF j.exc # None
                   THEN ExceptRequestException(j.exc)
                   ELSE Returned(Pair(Pair(h.status, j.value), None))
              ELSE Returned(Pair(Pair(h.status, None), None))

\* the f-strings that build the URL of a resource
VHostUrl(name) == HTTP_API_BASE_URL \o "/vhosts/" \o name
ExchangeUrl(vhost, name) == HTTP_API_BASE_URL \o "/exchanges/" \o vhost \o "/" \o name
QueueUrl(vhost, name) == HTTP_API_BASE_URL \o "/queues/" \o vhost \o "/" \o name

\* the request handed to requests.put / requests.get / requests.delete
Request(verb, url, body) ==
    [verb |-> verb, url |-> url, json |-> body, auth |-> get_auth, timeout |-> DefaultTimeout]


\* a call that sends the request a second time when the first attempt failed
SendRetrying(kind, op, self_vhost, args, req, h) ==
    /\ httpCount < MaxRequests
    /\ httpCount' = httpCount + (IF TryRequest(h).ret.fst = None THEN 2 ELSE 1)
    /\ lastRequest' = req
    /\ http' = h
    /\ call' = [kind |-> kind, op |-> op, self_vhost |-> self_vhost, args |-> args]
    /\ ret' = TryRequest(h).ret
    /\ raised' = TryRequest(h).raised
    /\ UNCHANGED <<environ, auth, prodVars, concVars>>

\* one create, read or delete call: the request is issued once and answered by h
Send(kind, op, self_vhost, args, req, h) ==
    /\ httpCount < MaxRequests
    /\ httpCount' = httpCount + 1
    /\ lastRequest' = req
    /\ http' = h
    /\ call' = [kind |-> kind, op |-> op, self_vhost |-> self_vhost, args |-> args]
    /\ ret' = TryRequest(h).ret
    /\ raised' = TryRequest(h).raised
    /\ UNCHANGED <<environ, auth, prodVars, concVars>>

\* the error text of the three update methods
UpdateError(kind) ==
    CASE kind = "VHost" -> "Updating vhost name is not supported in RabbitMQ."
      [] kind = "Exchange" -> "Updating exchange name or type is not supported in RabbitMQ."
      [] kind = "Queue" -> "Updating queue name is not supported in RabbitMQ."

\* an update that tries the rename against the management API before giving up
UnsupportedAfterRequest(kind, self_vhost, args) ==
    /\ httpCount < MaxRequests
    /\ httpCount' = httpCount + 1
    /\ call' = [kind |-> kind, op |-> "update", self_vhost |-> self_vhost, args |-> args]
    /\ ret' = Pair(None, Str(UpdateError(kind)))
    /\ raised' = "none"
    /\ lastRequest' = None
    /\ http' = None
    /\ UNCHANGED <<extVars, environ, auth, prodVars, concVars>>

\* one update call: logs and returns, no request
Unsupported(kind, self_vhost, args) ==
    /\ call' = [kind |-> kind, op |-> "update", self_vhost |-> self_vhost, args |-> args]
    /\ ret' = Pair(None, Str(UpdateError(kind)))
    /\ raised' = "none"
    /\ lastRequest' = None
    /\ http' = None
    /\ UNCHANGED <<extVars, environ, auth, httpCount, prodVars, concVars>>

VHostCreate ==
    \E name \in Names, h \in HttpBehaviours :
        /\ UNCHANGED extVars
        /\ Send("VHost", "create", AMQP_DEFAULT_VHOST, [name |-> name],
             Request("PUT", VHostUrl(name), None), h)

VHostRead ==
    \E name \in Names, h \in HttpBehaviours :
        /\ UNCHANGED extVars
        /\ Send("VHost", "read", AMQP_DEFAULT_VHOST, [name |-> name],
             Request("GET", VHostUrl(name), None), h)

VHostUpdate ==
    \E name \in Names, new_name \in Names :
        Unsupported("VHost", AMQP_DEFAULT_VHOST, [name |-> name, new_name |-> new_name])

VHostDelete ==
    \E name \in Names, h \in HttpBehaviours :
        /\ UNCHANGED extVars
        /\ Send("VHost", "delete", AMQP_DEFAULT_VHOST, [name |-> name],
             Request("DELETE", VHostUrl(name), None), h)

ExchangeCreate ==
    \E name \in Names, type \in ExchangeTypes, vhost \in Vhosts, durable \in BOOLEAN,
       h \in HttpBehaviours :
        /\ UNCHANGED extVars
        /\ Send("Exchange", "create", vhost,
                 [name |-> name, type |-> type, vhost |-> vhost, durable |-> durable],
                 Request("PUT", ExchangeUrl(vhost, name),
                         Dict([type |-> type, durable |-> durable])), h)

ExchangeRead ==
    \E name \in Names, vhost \in Vhosts, h \in HttpBehaviours :
        /\ UNCHANGED extVars
        /\ Send("Exchange", "read", vhost, [name |-> name, vhost |-> vhost],
                 Request("GET", ExchangeUrl(vhost, name), None), h)

ExchangeUpdate ==
    \E name \in Names, new_name \in Names, new_type \in {None} \cup {Str(t) : t \in ExchangeTypes} :
        Unsupported("Exchange", AMQP_DEFAULT_VHOST,
                    [name |-> name, new_name |-> new_name, new_type |-> new_type])

ExchangeDelete ==
    \E name \in Names, vhost \in Vhosts, h \in HttpBehaviours :
        /\ UNCHANGED extVars
        /\ Send("Exchange", "delete", vhost, [name |-> name, vhost |-> vhost],
                 Request("DELETE", ExchangeUrl(vhost, name), None), h)

QueueCreate ==
    \E name \in Names, vhost \in Vhosts, durable \in BOOLEAN, h \in HttpBehaviours :
        /\ UNCHANGED extVars
        /\ Send("Queue", "create", vhost,
                 [name |-> name, vhost |-> vhost, durable |-> durable],
                 Request("PUT", QueueUrl(vhost, name), Dict([durable |-> durable])), h)

QueueRead ==
    \E name \in Names, vhost \in Vhosts, h \in HttpBehaviours :
        /\ UNCHANGED extVars
        /\ Send("Queue", "read", vhost, [name |-> name, vhost |-> vhost],
                 Request("GET", QueueUrl(vhost, name), None), h)

QueueUpdate ==
    \E name \in Names, new_name \in Names :
        Unsupported("Queue", AMQP_DEFAULT_VHOST, [name |-> name, new_name |-> new_name])

QueueDelete ==
    \E name \in Names, vhost \in Vhosts, h \in HttpBehaviours :
        /\ UNCHANGED extVars
        /\ Send("Queue", "delete", vhost, [name |-> name, vhost |-> vhost],
                 Request("DELETE", QueueUrl(vhost, name), None), h)

(***************************************************************************)
(* The broker behind the management API, as the clients meet it: it holds  *)
(* virtual hosts, exchanges and queues, creates on PUT, answers GET with   *)
(* the JSON object of the resource, removes on DELETE, and answers 404 for *)
(* what it does not hold.  The default virtual host "/" always exists and  *)
(* is addressed as %2F in a path.                                          *)
(***************************************************************************)
\* percent-encoding of a path segment
Enc(v) == IF v = "/" THEN "%2F" ELSE v

VHostKey(v) == [kind |-> "VHost", vhost |-> "", name |-> v]
BrokerKeys ==
    { VHostKey(v) : v \in {"/"} \cup BrokerVhosts }
    \cup { [kind |-> k, vhost |-> v, name |-> n] :
             k \in {"Exchange", "Queue"}, v \in {"/"} \cup BrokerVhosts, n \in Names }

\* the URL under which the broker serves a resource
PathOf(key) ==
    CASE key.kind = "VHost" -> "/vhosts/" \o Enc(key.name)
      [] key.kind = "Exchange" -> "/exchanges/" \o Enc(key.vhost) \o "/" \o key.name
      [] key.kind = "Queue" -> "/queues/" \o Enc(key.vhost) \o "/" \o key.name

\* the resources a URL addresses: one, or none
Resolve(url) == { k \in BrokerKeys : HTTP_API_BASE_URL \o PathOf(k) = url }

\* the JSON object the broker returns for a resource it holds
ObjectOf(r) ==
    CASE r.key.kind = "VHost" -> [name |-> r.key.name]
      [] r.key.kind = "Exchange" ->
             [name |-> r.key.name, vhost |-> r.key.vhost,
              type |-> r.attrs.items.type, durable |-> r.attrs.items.durable]
      [] r.key.kind = "Queue" ->
             [name |-> r.key.name, vhost |-> r.key.vhost, durable |-> r.attrs.items.durable]

Answer(status, content) == [kind |-> "resp", status |-> status, content |-> content]
NotFound == Answer(404, dumps([error |-> "Object Not Found", reason |-> "Not Found"]))

\* what the broker with the resources st does with a request: the resources it
\* holds afterwards and its response
Serve(st, req) ==
    LET hits == Resolve(req.url) IN
    IF hits = {}
    THEN [store |-> st, resp |-> NotFound]
    ELSE LET k == CHOOSE x \in hits : TRUE
             held == { r \in st : r.key = k }
             vhostHeld == k.kind = "VHost" \/ \E r \in st : r.key = VHostKey(k.vhost)
         IN  CASE req.verb = "PUT" ->
                    IF ~vhostHeld THEN [store |-> st, resp |-> NotFound]
                    ELSE IF held = {}
                    THEN [store |-> st \cup {[key |-> k, attrs |-> req.json]},
                          resp |-> Answer(201, "")]
                    ELSE IF \E r \in held : r.attrs = req.json
                    THEN [store |-> st, resp |-> Answer(204, "")]
                    ELSE [store |-> st,
                          resp |-> Answer(400, dumps([error |-> "bad_request",
                                                      reason |-> "inequivalent arg"]))]
               [] req.verb = "GET" ->
                    IF held = {} THEN [store |-> st, resp |-> NotFound]
                    ELSE [store |-> st,
                          resp |-> Answer(200, dumps(ObjectOf(CHOOSE r \in held : TRUE)))]
               [] req.verb = "DELETE" ->
                    IF held = {} THEN [store |-> st, resp |-> NotFound]
                    ELSE [store |-> { r \in st : /\ r.key # k
                                                 /\ ~(k.kind = "VHost" /\ r.key.vhost = k.name) },
                          resp |-> Answer(204, "")]

\* the brokers a caller starts with: a fresh one, and one that holds resources
InitialStores ==
    { { [key |-> VHostKey("/"), attrs |-> None] },
      { [key |-> VHostKey("/"), attrs |-> None],
        [key |-> VHostKey("tenant"), attrs |-> None],
        [key |-> [kind |-> "Exchange", vhost |-> "tenant", name |-> "orders"],
         attrs |-> Dict([type |-> "fanout", durable |-> TRUE])],
        [key |-> [kind |-> "Queue", vhost |-> "/", name |-> "orders"],
         attrs |-> Dict([durable |-> FALSE])] } }

\* what becomes of a request on its way: the broker is not reached, or it
\* serves the request and its response is lost, or the response arrives
Fates == {"refused", "timeout", "answered"}

\* the (kind, vhost, name) a call names, in the caller's words
CallKey(kind, args) ==
    [kind |-> kind, vhost |-> IF kind = "VHost" THEN "" ELSE args.vhost, name |-> args.name]

\* one create, read or delete call against the broker
Served(kind, op, args, req) ==
    \E fate \in Fates :
        LET out == Serve(store, req)
            h == CASE fate = "refused" ->
                        [kind |-> "exc",
                         exc |-> [cls |-> "ConnectionError", msg |-> "Connection refused"]]
                   [] fate = "timeout" ->
                        [kind |-> "exc", exc |-> [cls |-> "ReadTimeout", msg |-> "Read timed out."]]
                   [] fate = "answered" -> out.resp
            res == TryRequest(h)
            ok == res.raised = "none" /\ res.ret.fst # None
            key == CallKey(kind, args)
        IN  /\ Send(kind, op, IF kind = "VHost" THEN AMQP_DEFAULT_VHOST ELSE args.vhost,
                    args, req, h)
            /\ store' = IF fate = "refused" THEN store ELSE out.store
            /\ made' =
                 CASE op = "create" ->
                        IF ok THEN { m \in made : m.key # key } \cup {[key |-> key, sent |-> req.json]}
                        ELSE made
                   [] op = "delete" ->
                        { m \in made : /\ m.key # key
                                       /\ ~(kind = "VHost" /\ m.key.vhost = args.name) }
                   [] OTHER -> made
            /\ gone' =
                 CASE op = "create" -> gone \ {key}
                   [] op = "delete" -> IF ok THEN gone \cup {key} ELSE gone
                   [] OTHER -> gone
            /\ UNCHANGED <<routeVars, pwVars>>

VHostCreateServed ==
    \E name \in BrokerVhosts :
        Served("VHost", "create", [name |-> name], Request("PUT", VHostUrl(name), None))

VHostReadServed ==
    \E name \in BrokerVhosts :
        Served("VHost", "read", [name |-> name], Request("GET", VHostUrl(name), None))

VHostDeleteServed ==
    \E name \in BrokerVhosts :
        Served("VHost", "delete", [name |-> name], Request("DELETE", VHostUrl(name), None))

ExchangeCreateServed ==
    \E name \in Names, type \in BrokerTypes, vhost \in Vhosts, durable \in BOOLEAN :
        Served("Exchange", "create",
               [name |-> name, type |-> type, vhost |-> vhost, durable |-> durable],
               Request("PUT", ExchangeUrl(vhost, name), Dict([type |-> type, durable |-> durable])))

ExchangeReadServed ==
    \E name \in Names, vhost \in Vhosts :
        Served("Exchange", "read", [name |-> name, vhost |-> vhost],
               Request("GET", ExchangeUrl(vhost, name), None))

ExchangeDeleteServed ==
    \E name \in Names, vhost \in Vhosts :
        Served("Exchange", "delete", [name |-> name, vhost |-> vhost],
               Request("DELETE", ExchangeUrl(vhost, name), None))

QueueCreateServed ==
    \E name \in Names, vhost \in Vhosts, durable \in BOOLEAN :
        Served("Queue", "create", [name |-> name, vhost |-> vhost, durable |-> durable],
               Request("PUT", QueueUrl(vhost, name), Dict([durable |-> durable])))

QueueReadServed ==
    \E name \in Names, vhost \in Vhosts :
        Served("Queue", "read", [name |-> name, vhost |-> vhost],
               Request("GET", QueueUrl(vhost, name), None))

QueueDeleteServed ==
    \E name \in Names, vhost \in Vhosts :
        Served("Queue", "delete", [name |-> name, vhost |-> vhost],
               Request("DELETE", QueueUrl(vhost, name), None))

(***************************************************************************)
(* The POST /v1/exchanges route of src/http_/api_v1.py.                    *)
(***************************************************************************)
\* raise HTTPException(status_code=400, detail=error)
HTTPException(status_code, detail) == [status |-> status_code, detail |-> detail]

\* the dict the route returns, which FastAPI sends with status 200
ExchangeCreateResponse(exchange) ==
    [status |-> 200,
     body |-> [name |-> exchange.name, type |-> exchange.type, vhost |-> exchange.vhost,
               durable |-> exchange.durable, created_at |-> "2023-01-01T00:00:00Z"]]

\* create_exchange: Exchange(vhost=exchange.vhost).create(...), then `if error:`
create_exchange ==
    \E name \in Names, type \in ExchangeTypes, vhost \in Vhosts, durable \in BOOLEAN,
       h \in HttpBehaviours :
        LET exchange == [name |-> name, type |-> type, vhost |-> vhost, durable |-> durable]
            out == TryRequest(h)
        IN  /\ Send("Exchange", "create", exchange.vhost, exchange,
                    Request("PUT", ExchangeUrl(exchange.vhost, exchange.name),
                            Dict([type |-> exchange.type, durable |-> exchange.durable])), h)
            /\ response' =
                   IF out.raised # "none"
                   THEN [status |-> 500, detail |-> Str("Internal Server Error")]
                   ELSE IF Truthy(out.ret.snd)
                   THEN HTTPException(400, out.ret.snd)
                   ELSE ExchangeCreateResponse(exchange)
            /\ UNCHANGED <<brokerVars, pwVars>>

(***************************************************************************)
(* Password validation: src/security/password.py and                       *)
(* src/security/password_validation_tests.py.  A password is a sequence of *)
(* characters; a policy is a dict, kept as the sequence of its (key,       *)
(* value) pairs in the order in which it declares them.  Entropies and     *)
(* min_entropy are in units of 10^-5 bit.                                  *)
(***************************************************************************)
Chars == {"a", "A", "1", "!"}
isupper(c) == c \in {"A"}
isdigit(c) == c \in {"1"}
Passwords == UNION { [1 .. n -> Chars] : n \in 0 .. MaxLen }

\* config.DEFAULT_PASSWORD_POLICY
DEFAULT_PASSWORD_POLICY ==
    Dict(<< <<"min_length", 8>>, <<"min_uppercase", 1>>, <<"min_numbers", 1>>,
            <<"min_special", 1>>,
            <<"allowed_specials",
              <<"!", "@", "#", "$", "%", "^", "*", "-", "_", "=", "+", ".", ",">> >>,
            <<"min_entropy", 50000>>, <<"check_pwned", TRUE>> >>)

\* the entries callers put into their policies
PolicyItems ==
    { <<"min_length", 2>>, <<"min_uppercase", 1>>, <<"min_numbers", 1>>,
      <<"min_special", 1>>, <<"allowed_specials", <<"!">> >>,
      <<"min_entropy", 100000>>, <<"check_pwned", TRUE>>, <<"check_pwned", FALSE>> }
Policies ==
    { Dict(p) : p \in { q \in UNION { [1 .. n -> PolicyItems] : n \in 0 .. MaxRules } :
                          \A i, j \in DOMAIN q : i # j => q[i][1] # q[j][1] } }
PwnedAnswers == {"clean", "breached", "unreachable"}

\* `key in policy` and `policy[key]`
In(key, pol) == \E i \in DOMAIN pol.items : pol.items[i][1] = key
Get(pol, key) == pol.items[CHOOSE i \in DOMAIN pol.items : pol.items[i][1] = key][2]

\* sum(1 for c in password if ...)
Count(pw, cs) == Cardinality({ i \in DOMAIN pw : pw[i] \in cs })

RECURSIVE Join(_)
Join(cs) == IF cs = <<>> THEN "" ELSE Head(cs) \o Join(Tail(cs))

RECURSIVE ZeroPad(_, _)
ZeroPad(k, w) == IF w <= 1 THEN ToString(k) ELSE ZeroPad(k \div 10, w - 1) \o ToString(k % 10)

RECURSIVE FracDigits(_, _)
FracDigits(f, w) ==
    IF w = 1 \/ f % 10 # 0 THEN ZeroPad(f, w) ELSE FracDigits(f \div 10, w - 1)

\* str() of a float, as the f-string prints min_entropy
FloatRepr(u) == ToString(u \div 100000) \o "." \o FracDigits(u % 100000, 5)

\* f"{entropy:.2f}"; an entropy of zero is the float -0.0, the negation of a sum of zeros
Format2f(e) ==
    LET cents == (e + 500) \div 1000
    IN  (IF e = 0 THEN "-" ELSE "") \o ToString(cents \div 100) \o "." \o ZeroPad(cents % 100, 2)

test_length(pw, min_length) ==
    IF Len(pw) < min_length
    THEN Pair(TRUE, "The password must be at least " \o ToString(min_length)
                    \o " characters long.")
    ELSE Pair(FALSE, "")

test_uppercase(pw, min_uppercase) ==
    IF Count(pw, { c \in Chars : isupper(c) }) < min_uppercase
    THEN Pair(TRUE, "Password must include at least " \o ToString(min_uppercase)
                    \o " uppercase letter(s).")
    ELSE Pair(FALSE, "")

test_numbers(pw, min_numbers) ==
    IF Count(pw, { c \in Chars : isdigit(c) }) < min_numbers
    THEN Pair(TRUE, "Password must include at least " \o ToString(min_numbers) \o " number(s).")
    ELSE Pair(FALSE, "")

test_special_characters(pw, min_special, allowed_specials) ==
    LET allowed(c) == \E k \in DOMAIN allowed_specials : allowed_specials[k] = c
    IN  IF Count(pw, { c \in Chars : allowed(c) }) < min_special
        THEN Pair(TRUE, "Password must include at least " \o ToString(min_special)
                        \o " special character(s) from the set: " \o Join(allowed_specials))
        ELSE Pair(FALSE, "")

\* pwnedpasswords.check: the number of breaches, when the lookup answers
pwned_count(api) == IF api = "breached" THEN 3 ELSE 0

test_pwned(pw, api) ==
    IF api = "unreachable"
    THEN Pair(TRUE, "Unable to verify if the password has been pwned. Please try again later.")
    ELSE IF pwned_count(api) > 0
    THEN Pair(TRUE, "The password you entered has appeared in " \o ToString(pwned_count(api))
                    \o " data breaches. "
                    \o "Please choose a more secure password to protect your account.")
    ELSE Pair(FALSE, "")

\* -(count / length) * log2(count / length), rounded to 10^-5 bit
PLogP(count, length) ==
    CASE count = length -> 0
      [] length = 2 -> 50000
      [] length = 3 /\ count = 1 -> 52832
      [] length = 3 /\ count = 2 -> 38998
      [] length = 4 /\ count \in {1, 2} -> 50000
      [] length = 4 /\ count = 3 -> 31128
      [] length = 5 /\ count = 1 -> 46439
      [] length = 5 /\ count = 2 -> 52877
      [] length = 5 /\ count = 3 -> 44218
      [] length = 5 /\ count = 4 -> 25754

RECURSIVE SumPLogP(_, _)
SumPLogP(pw, cs) ==
    IF cs = {} THEN 0
    ELSE LET c == CHOOSE x \in cs : TRUE
         IN  PLogP(Cardinality({ i \in DOMAIN pw : pw[i] = c }), Len(pw))
             + SumPLogP(pw, cs \ {c})

\* the Shannon entropy of the characters of a non-empty password
Entropy(pw) == SumPLogP(pw, { pw[i] : i \in DOMAIN pw })

test_entropy(pw, min_entropy) ==
    IF pw = <<>>
    THEN Pair(TRUE, "Password cannot be empty.")
    ELSE IF Entropy(pw) < min_entropy
    THEN Pair(TRUE, "The password is too weak. Entropy: " \o Format2f(Entropy(pw))
                    \o " bits (min: " \o FloatRepr(min_entropy) \o " bits).")
    ELSE Pair(FALSE, "")

\* whether the if of run_password_validation_tests appends the test
Appends(test, pol) ==
    CASE test = "test_length" -> In("min_length", pol)
      [] test = "test_uppercase" -> In("min_uppercase", pol)
      [] test = "test_numbers" -> In("min_numbers", pol)
      [] test = "test_special_characters" -> In("min_special", pol) /\ In("allowed_specials", pol)
      [] test = "test_pwned" -> In("check_pwned", pol) /\ Get(pol, "check_pwned")
      [] test = "test_entropy" -> In("min_entropy", pol)

\* the tests in the order in which the policy declares their keys
TestOfKey(key) ==
    CASE key = "min_length" -> "test_length"
      [] key = "min_uppercase" -> "test_uppercase"
      [] key = "min_numbers" -> "test_numbers"
      [] key = "min_special" -> "test_special_characters"
      [] key = "check_pwned" -> "test_pwned"
      [] key = "min_entropy" -> "test_entropy"
      [] OTHER -> "none"

RECURSIVE TestsOfItems(_, _)
TestsOfItems(items, pol) ==
    IF items = <<>> THEN <<>>
    ELSE LET t == TestOfKey(Head(items)[1])
         IN  (IF t # "none" /\ Appends(t, pol) THEN <<t>> ELSE <<>>)
             \o TestsOfItems(Tail(items), pol)

\* a test list built by walking the policy
run_password_validation_tests_PolicyOrder(pol) == TestsOfItems(pol.items, pol)

\* a test list that looks up breaches as soon as the policy has the key check_pwned
run_password_validation_tests_AnyFlag(pol) ==
    LET appends(t) == IF t = "test_pwned" THEN In("check_pwned", pol) ELSE Appends(t, pol)
    IN  SelectSeq(<<"test_length", "test_uppercase", "test_numbers",
                    "test_special_characters", "test_pwned", "test_entropy">>, appends)

\* run_password_validation_tests: the list test_mapping, one if after the other
run_password_validation_tests(pol) ==
    LET appends(t) == Appends(t, pol)
    IN  SelectSeq(<<"test_length", "test_uppercase", "test_numbers",
                    "test_special_characters", "test_pwned", "test_entropy">>, appends)

\* test(): what the lambda of a test returns
RunTest(test, pw, pol, api) ==
    CASE test = "test_length" -> test_length(pw, Get(pol, "min_length"))
      [] test = "test_uppercase" -> test_uppercase(pw, Get(pol, "min_uppercase"))
      [] test = "test_numbers" -> test_numbers(pw, Get(pol, "min_numbers"))
      [] test = "test_special_characters" ->
             test_special_characters(pw, Get(pol, "min_special"), Get(pol, "allowed_specials"))
      [] test = "test_pwned" -> test_pwned(pw, api)
      [] test = "test_entropy" -> test_entropy(pw, Get(pol, "min_entropy"))

\* `if not policy: policy = DEFAULT_PASSWORD_POLICY`
EffectivePolicy(pol) ==
    IF pol = None \/ pol.items = <<>> THEN DEFAULT_PASSWORD_POLICY ELSE pol

\* the for loop of validate_password from test number i on: the tests it called
\* and the pair it returned
RECURSIVE Loop(_, _, _, _, _)
Loop(tests, i, pw, pol, api) ==
    IF i > Len(tests)
    THEN [evaluated |-> <<>>, verdict |-> Pair(FALSE, "Password is valid.")]
    ELSE LET r == RunTest(tests[i], pw, pol, api)
         IN  IF r.fst
             THEN [evaluated |-> <<tests[i]>>, verdict |-> r]
             ELSE LET rest == Loop(tests, i + 1, pw, pol, api)
                  IN  [evaluated |-> <<tests[i]>> \o rest.evaluated, verdict |-> rest.verdict]

\* one call validate_password(password, policy); the breach lookup, if the call
\* makes it, answers as api
validate_password ==
    \E api \in PwnedAnswers :
        LET pol == EffectivePolicy(policy)
            run == Loop(run_password_validation_tests(pol), 1, password, pol, api)
        IN  /\ verdict = None
            /\ evaluated' = run.evaluated
            /\ verdict' = run.verdict
            /\ pwnedApi' = IF \E k \in DOMAIN run.evaluated : run.evaluated[k] = "test_pwned"
                           THEN api ELSE "clean"
            /\ UNCHANGED <<password, policy>>
            /\ UNCHANGED <<environ, auth, adminVars, prodVars, concVars, routeVars, brokerVars>>

(***************************************************************************)
(* Concurrent create calls: each thread runs Exchange.create or            *)
(* Queue.create for a name of its own.  A call is three steps, between     *)
(* which the other threads run: the request is built from the arguments    *)
(* and sent, the HTTP layer answers it, and the rest of the try block      *)
(* turns the answer into the returned pair.                                *)
(***************************************************************************)
Threads == 1 .. NumThreads
ThreadName(t) == "r" \o ToString(t)
CreateAnswers ==
    { [kind |-> "resp", status |-> 201, content |-> ""],
      [kind |-> "resp", status |-> 204, content |-> ""],
      [kind |-> "resp", status |-> 500, content |-> "{}"],
      [kind |-> "exc", exc |-> [cls |-> "ReadTimeout", msg |-> "Read timed out."]] }

ConcIdle ==
    /\ tpc = [t \in Threads |-> "idle"]
    /\ targs = [t \in Threads |-> None]
    /\ wire = [t \in Threads |-> None]
    /\ answer = [t \in Threads |-> None]
    /\ tret = [t \in Threads |-> None]

\* a response kept in one place for all calls: the first one that came in
SharedResponse(t) == answer[CHOOSE u \in Threads : answer[u] # None]

\* `response`, the local variable of the call of thread t
Response(t) == answer[t]

\* the request is built from the arguments of the call and sent
CreateSend(t) ==
    \E kind \in {"Exchange", "Queue"}, durable \in BOOLEAN :
        /\ tpc[t] = "idle"
        /\ tpc' = [tpc EXCEPT ![t] = "sent"]
        /\ targs' = [targs EXCEPT ![t] =
                        IF kind = "Exchange"
                        THEN [kind |-> kind, name |-> ThreadName(t), type |-> "direct",
                              vhost |-> "tenant", durable |-> durable]
                        ELSE [kind |-> kind, name |-> ThreadName(t), vhost |-> "tenant",
                              durable |-> durable]]
        /\ wire' = [wire EXCEPT ![t] =
                        IF kind = "Exchange"
                        THEN Request("PUT", ExchangeUrl("tenant", ThreadName(t)),
                                     Dict([type |-> "direct", durable |-> durable]))
                        ELSE Request("PUT", QueueUrl("tenant", ThreadName(t)),
                                     Dict([durable |-> durable]))]
        /\ UNCHANGED <<extVars, environ, auth, adminVars, prodVars, answer, tret>>

\* the HTTP layer answers the request of thread t
HttpAnswer(t) ==
    \E h \in CreateAnswers :
        /\ tpc[t] = "sent"
        /\ tpc' = [tpc EXCEPT ![t] = "answered"]
        /\ answer' = [answer EXCEPT ![t] = h]
        /\ UNCHANGED <<extVars, environ, auth, adminVars, prodVars, targs, wire, tret>>

\* raise_for_status, the return, the except clause
CreateReturn(t) ==
    /\ tpc[t] = "answered"
    /\ tpc' = [tpc EXCEPT ![t] = "done"]
    /\ tret' = [tret EXCEPT ![t] = TryRequest(Response(t)).ret]
    /\ UNCHANGED <<extVars, environ, auth, adminVars, prodVars, targs, wire, answer>>

(***************************************************************************)
(* Producer: src/rmq.py lines 407-474, over pika's BlockingConnection.     *)
(***************************************************************************)
Exchanges == {"orders", "missing"}
Messages == {"m1", "m2"}

ProducerIdle ==
    /\ phase = "none"
    /\ ctor = "none"
    /\ connection = 0
    /\ channel = 0
    /\ connOpen = FALSE
    /\ chanOpen = FALSE
    /\ link = "up"
    /\ opened = 0
    /\ closeCalls = 0
    /\ closeOnClosed = 0
    /\ published = 0
    /\ pcall = None
    /\ pfault = "none"
    /\ pret = None
    /\ praised = "none"

\* a constructor that logs the failure and returns the object all the same
InitSwallows(outcome) == "none"

\* __init__ has no try: what pika.BlockingConnection or connection.channel()
\* raises leaves the constructor
InitRaises(outcome) ==
    CASE outcome = "conn_fails" -> "AMQPConnectionError"
      [] outcome = "chan_fails" -> "ChannelClosedByBroker"
      [] OTHER -> "none"

\* Producer.__init__: the broker accepts the connection and the channel, refuses
\* the connection, or refuses the channel (in which case it may also drop the
\* connection)
ProducerInit ==
    \E outcome \in {"ok", "conn_fails", "chan_fails"}, vhost \in {AMQP_DEFAULT_VHOST, "tenant"},
       dropped \in BOOLEAN :
        /\ phase = "none"
        /\ dropped => outcome = "chan_fails"
        /\ ctor' = outcome
        /\ pcall' = [op |-> "__init__", vhost |-> vhost]
        /\ connection' = IF outcome = "conn_fails" THEN 0 ELSE opened + 1
        /\ opened' = IF outcome = "conn_fails" THEN opened ELSE opened + 1
        /\ connOpen' = (outcome # "conn_fails" /\ ~dropped)
        /\ link' = IF outcome = "conn_fails" \/ dropped THEN "down" ELSE "up"
        /\ channel' = IF outcome = "ok" THEN 1 ELSE 0
        /\ chanOpen' = (outcome = "ok")
        /\ pfault' = InitRaises(outcome)
        /\ praised' = InitRaises(outcome)
        /\ pret' = None
        /\ phase' = IF InitRaises(outcome) = "none" THEN "live" ELSE "failed"
        /\ UNCHANGED <<extVars, environ, auth, adminVars, concVars, closeCalls, closeOnClosed, published>>

\* the message of the exceptions publish and close meet
ExcText(cls) ==
    CASE cls = "AttributeError" -> "'Producer' object has no attribute 'channel'"
      [] cls = "ChannelWrongStateError" -> "Channel is closed."
      [] cls = "StreamLostError" -> "Stream connection lost"
      [] OTHER -> cls

\* a basic_publish that writes the frame without looking at the channel state
basic_publish_Unchecked(lost) ==
    IF channel = 0 THEN "AttributeError"
    ELSE IF lost THEN "StreamLostError"
    ELSE "none"

\* what self.channel.basic_publish does: the exception it raises, or "none"
\* (lost: the link is found lost, or is lost, while the frame is written)
basic_publish(lost) ==
    IF channel = 0 THEN "AttributeError"
    ELSE IF ~connOpen \/ ~chanOpen THEN "ChannelWrongStateError"
    ELSE IF lost THEN "StreamLostError"
    ELSE "none"

\* an except branch of publish that opens a new connection and channel
PublishFailedReconnects(e) ==
    /\ pret' = Dict([status |-> "error", message |-> ExcText(e)])
    /\ praised' = "none"
    /\ connection' = opened + 1
    /\ channel' = channel + 1
    /\ opened' = opened + 1
    /\ UNCHANGED <<closeCalls, closeOnClosed>>

\* the except branch of publish: log, return the error dict
PublishFailed(e) ==
    /\ pret' = Dict([status |-> "error", message |-> ExcText(e)])
    /\ praised' = "none"
    /\ UNCHANGED <<connection, channel, opened, closeCalls, closeOnClosed>>

\* Producer.publish
ProducerPublish ==
    \E exchange_name \in Exchanges, message \in Messages, lost \in BOOLEAN :
        LET e == basic_publish(lost \/ link = "down") IN
        /\ phase = "live"
        /\ e = "none" => published < MaxPublished
        /\ pcall' = [op |-> "publish", exchange_name |-> exchange_name,
                     routing_key |-> "rk", message |-> message]
        /\ pfault' = e
        /\ IF e = "none"
           THEN /\ published' = published + 1
                /\ pret' = Dict([status |-> "success", message |-> "Message published"])
                /\ praised' = "none"
                /\ UNCHANGED <<connection, channel, opened, closeCalls, closeOnClosed,
                               connOpen, chanOpen, link>>
           ELSE /\ PublishFailed(e)
                \* pika marks a connection it finds lost as closed
                /\ connOpen' = (connOpen /\ e # "StreamLostError")
                /\ chanOpen' = (chanOpen /\ e # "StreamLostError")
                /\ link' = IF e = "StreamLostError" THEN "down" ELSE link
                /\ UNCHANGED published
        /\ UNCHANGED <<extVars, environ, auth, adminVars, concVars, phase, ctor>>

\* what self.connection.close() does (pika 1.x): the exception it raises, or "none"
\* (noticed: a lost link is noticed while the close handshake is written)
ConnectionClose(noticed) ==
    IF connection = 0 THEN "AttributeError"
    ELSE IF ~connOpen THEN "ConnectionWrongStateError"
    ELSE IF link = "down" /\ noticed THEN "StreamLostError"
    ELSE "none"

\* the body of Producer.close: one call of self.connection.close(), unguarded
CloseBody(noticed) ==
    /\ pfault' = ConnectionClose(noticed)
    /\ praised' = ConnectionClose(noticed)
    /\ pret' = None
    /\ closeCalls' = IF connection = 0 THEN closeCalls ELSE closeCalls + 1
    /\ closeOnClosed' = IF connection # 0 /\ ~connOpen THEN closeOnClosed + 1 ELSE closeOnClosed
    /\ connOpen' = FALSE
    /\ chanOpen' = FALSE
    /\ UNCHANGED <<connection, channel, opened, link, published>>

\* Producer.close
ProducerClose ==
    \E noticed \in BOOLEAN :
        /\ phase = "live"
        /\ closeCalls < MaxCloses
        /\ pcall' = [op |-> "close", was_open |-> connOpen]
        /\ CloseBody(noticed)
        /\ UNCHANGED <<extVars, environ, auth, adminVars, concVars, phase, ctor>>

\* Producer.__del__: runs when the last reference goes, also on an object whose
\* __init__ raised
ProducerDel ==
    \E noticed \in BOOLEAN :
        /\ phase \in {"live", "failed"}
        /\ phase' = "dead"
        /\ pcall' = [op |-> "__del__", was_open |-> connOpen]
        /\ IF connection = 0
           THEN \* self.connection does not exist
                /\ pfault' = "AttributeError"
                /\ praised' = "AttributeError"
                /\ pret' = None
                /\ UNCHANGED <<connection, channel, opened, link, published, connOpen,
                               chanOpen, closeCalls, closeOnClosed>>
           ELSE IF connOpen
           THEN CloseBody(noticed)
           ELSE /\ pfault' = "none"
                /\ praised' = "none"
                /\ pret' = None
                /\ UNCHANGED <<connection, channel, opened, link, published, connOpen,
                               chanOpen, closeCalls, closeOnClosed>>
        /\ UNCHANGED <<extVars, environ, auth, adminVars, concVars, ctor>>

\* the broker or the network ends the session, or the broker closes the channel
\* (a publish to an exchange that does not exist); pika has not seen the loss of
\* the session yet
BrokerDrop ==
    \E what \in {"connection", "channel"} :
        /\ phase = "live"
        /\ IF what = "connection"
           THEN link = "up" /\ link' = "down" /\ UNCHANGED chanOpen
           ELSE chanOpen /\ chanOpen' = FALSE /\ UNCHANGED link
        /\ pcall' = [op |-> "drop", what |-> what]
        /\ UNCHANGED <<extVars, environ, auth, adminVars, concVars, phase, ctor, connection, channel, connOpen,
                       opened, closeCalls, closeOnClosed, published, pfault, pret, praised>>

(***************************************************************************)
(* The administrative caller: the module is imported under some            *)
(* environment, then the clients are called one after the other.           *)
(***************************************************************************)
Init ==
    /\ environ \in Environs
    /\ auth = <<SUPERADMIN_USER, SUPERADMIN_PASS>>
    /\ httpCount = 0
    /\ lastRequest = None
    /\ http = None
    /\ call = None
    /\ ret = None
    /\ raised = "none"
    /\ ProducerIdle
    /\ ConcIdle
    /\ RouteIdle
    /\ BrokerIdle
    /\ PasswordIdle

Next ==
    \/ VHostCreate \/ VHostRead \/ VHostUpdate \/ VHostDelete
    \/ ExchangeCreate \/ ExchangeRead \/ ExchangeUpdate \/ ExchangeDelete
    \/ QueueCreate \/ QueueRead \/ QueueUpdate \/ QueueDelete

Spec == Init /\ [][Next]_vars

(***************************************************************************)
(* The owner of a Producer: constructs it, publishes and closes in any     *)
(* order, and drops it; the broker may end the session at any time.        *)
(***************************************************************************)
AdminIdle ==
    /\ httpCount = 0
    /\ lastRequest = None
    /\ http = None
    /\ call = None
    /\ ret = None
    /\ raised = "none"

InitProducer ==
    /\ environ \in { <<>>, [RABBITMQ_AMQP_DEFAULT_VHOST |-> "/"] }
    /\ auth = <<SUPERADMIN_USER, SUPERADMIN_PASS>>
    /\ AdminIdle
    /\ ProducerIdle
    /\ ConcIdle
    /\ RouteIdle
    /\ BrokerIdle
    /\ PasswordIdle

NextProducer ==
    \/ ProducerInit \/ ProducerPublish \/ ProducerClose \/ ProducerDel \/ BrokerDrop

SpecProducer == InitProducer /\ [][NextProducer]_vars

(***************************************************************************)
(* Threads that call create at the same time, under the default            *)
(* environment.                                                            *)
(***************************************************************************)
InitConc ==
    /\ environ = <<>>
    /\ auth = <<SUPERADMIN_USER, SUPERADMIN_PASS>>
    /\ AdminIdle
    /\ ProducerIdle
    /\ ConcIdle
    /\ RouteIdle
    /\ BrokerIdle
    /\ PasswordIdle

NextConc ==
    \E t \in Threads : CreateSend(t) \/ HttpAnswer(t) \/ CreateReturn(t)

SpecConc == InitConc /\ [][NextConc]_vars

(***************************************************************************)
(* A caller that creates, reads and deletes resources on a broker, under   *)
(* the default environment.                                                *)
(***************************************************************************)
InitBroker ==
    /\ environ = <<>>
    /\ auth = <<SUPERADMIN_USER, SUPERADMIN_PASS>>
    /\ AdminIdle
    /\ ProducerIdle
    /\ ConcIdle
    /\ RouteIdle
    /\ PasswordIdle
    /\ store \in InitialStores
    /\ made = {}
    /\ gone = {}

NextBroker ==
    \/ VHostCreateServed \/ VHostReadServed \/ VHostDeleteServed
    \/ ExchangeCreateServed \/ ExchangeReadServed \/ ExchangeDeleteServed
    \/ QueueCreateServed \/ QueueReadServed \/ QueueDeleteServed

SpecBroker == InitBroker /\ [][NextBroker]_vars

(***************************************************************************)
(* API consumers that post to /v1/exchanges.                               *)
(***************************************************************************)
NextRoute == create_exchange

SpecRoute == Init /\ [][NextRoute]_vars

(***************************************************************************)
(* Callers of validate_password: any password, any policy or none.         *)
(***************************************************************************)
InitPassword ==
    /\ environ = <<>>
    /\ auth = <<SUPERADMIN_USER, SUPERADMIN_PASS>>
    /\ AdminIdle
    /\ ProducerIdle
    /\ ConcIdle
    /\ RouteIdle
    /\ BrokerIdle
    /\ password \in Passwords
    /\ policy \in {None} \cup Policies
    /\ pwnedApi = "clean"
    /\ evaluated = <<>>
    /\ verdict = None

NextPassword == validate_password

SpecPassword == InitPassword /\ [][NextPassword]_vars

(***************************************************************************)
(* The whole layer: after the import a caller works either with the        *)
(* management-API clients or with a Producer.  The two share no state, so  *)
(* the runs of the layer are the runs of the one or of the other.          *)
(***************************************************************************)
NextLayer ==
    \/ phase = "none" /\ Next
    \/ call = None /\ NextProducer

SpecLayer == Init /\ [][NextLayer]_vars

(***************************************************************************)
(* Properties of the management-API clients and of the configuration.      *)
(***************************************************************************)
IsTransportCall == call # None /\ call.op \in {"create", "read", "delete"}
IsUpdateCall == call # None /\ call.op = "update"

\* C1: whatever the HTTP layer does during a create, read or delete (an
\* exception of the transport, an error status, a success with an empty body or
\* with a body that is no JSON), no exception escapes the call and it returns a
\* pair of which exactly one component is set: (Outcome, None) or (None, error).
C1_NoFaultEscapes ==
    IsTransportCall =>
        /\ raised = "none"
        /\ ret.tag = "tuple"
        /\ \/ ret.fst # None /\ ret.snd = None
           \/ ret.fst = None /\ ret.snd # None /\ ret.snd.tag = "str"

\* a read answered 200 with a body that is no JSON came back as (None, error)
C1_Witness ==
    /\ IsTransportCall
    /\ call.op = "read"
    /\ http.kind = "resp" /\ http.status = 200 /\ http.content = "<html>"
    /\ raised = "none"
    /\ ret.tag = "tuple" /\ ret.fst = None /\ ret.snd # None

\* C2: for every resource kind and all arguments, update returns (None, the
\* unsupported-operation error of its kind) and issues no HTTP request: the
\* number of requests issued is the same after the call as before it.
C2_UpdateNoNetwork ==
    [][(call' # None /\ call'.op = "update") =>
          /\ httpCount' = httpCount
          /\ lastRequest' = None
          /\ raised' = "none"
          /\ ret' \in { Pair(None, Str("Updating vhost name is not supported in RabbitMQ.")),
                        Pair(None, Str("Updating exchange name or type is not supported in RabbitMQ.")),
                        Pair(None, Str("Updating queue name is not supported in RabbitMQ.")) }]_vars

\* an update of an exchange returned its error after requests had been issued
C2_Witness ==
    /\ IsUpdateCall
    /\ call.kind = "Exchange"
    /\ httpCount > 0
    /\ ret.tag = "tuple" /\ ret.fst = None /\ ret.snd # None

\* C3 as stated: every status outside 2xx gives (None, error), and an Outcome
\* is returned only for a 2xx status.
C3_Non2xxIsError ==
    (IsTransportCall /\ http.kind = "resp") =>
        /\ ~(200 <= http.status /\ http.status < 300) =>
              (raised = "none" /\ ret.tag = "tuple" /\ ret.fst = None /\ ret.snd # None)
        /\ (ret.tag = "tuple" /\ ret.fst # None) =>
              (200 <= http.status /\ http.status < 300)

\* C3 as the code has it: every 4xx and 5xx status gives (None, error), and an
\* Outcome, which carries the status of the response, is returned only for a
\* status that is neither 4xx nor 5xx.
C3_ErrorStatusIsError ==
    (IsTransportCall /\ http.kind = "resp") =>
        /\ (400 <= http.status /\ http.status < 600) =>
              (raised = "none" /\ ret.tag = "tuple" /\ ret.fst = None /\ ret.snd # None)
        /\ (ret.tag = "tuple" /\ ret.fst # None) =>
              (ret.fst.fst = http.status /\ ~(400 <= http.status /\ http.status < 600))

\* a delete answered 404 returned (None, error)
C3_Witness ==
    /\ IsTransportCall
    /\ call.op = "delete"
    /\ http.kind = "resp" /\ http.status = 404
    /\ ret.tag = "tuple" /\ ret.fst = None /\ ret.snd = Str("404 Client Error")

\* C8: in every request of an Exchange or Queue create, read or delete whose
\* vhost argument names the default virtual host ("/" or its encoded form), the
\* vhost segment of the URL is %2F.
C8_DefaultVhostEncoded ==
    (IsTransportCall /\ call.kind \in {"Exchange", "Queue"} /\ call.args.vhost \in {"/", "%2F"}) =>
        lastRequest.url =
            HTTP_API_BASE_URL
                \o (IF call.kind = "Exchange" THEN "/exchanges/" ELSE "/queues/")
                \o "%2F" \o "/" \o call.args.name

\* C9: the base URL is scheme, host and port, where the scheme and the port
\* both follow the TLS flag: http and the management port with the flag off,
\* https and the management TLS port with the flag on.
C9_BaseUrlFollowsTlsFlag ==
    HTTP_API_BASE_URL =
        (IF HTTP_API_USE_TLS THEN "https" ELSE "http") \o "://" \o HTTP_API_HOST \o ":"
            \o ToString(IF HTTP_API_USE_TLS THEN HTTP_API_TLS_PORT ELSE HTTP_API_PORT)
            \o "/api"

ClosedByClose == closeCalls > closeOnClosed

IsRead == call # None /\ call.op = "read"

\* C12: for each of the three kinds, a read of a (vhost, name) whose last
\* delete returned success, no create having been attempted on it since, does
\* not raise and returns (None, error); when the broker answered the read, the
\* answer is its 404 and the error is the text of that status.
C12_DeletedReadsNotFound ==
    (IsRead /\ CallKey(call.kind, call.args) \in gone) =>
        /\ raised = "none"
        /\ ret.fst = None
        /\ ret.snd # None
        /\ http.kind = "resp" =>
              /\ http.status = 404
              /\ ret.snd = Str("404 Client Error")

\* an exchange was deleted with success and read afterwards
C12_Witness ==
    /\ IsRead /\ call.kind = "Exchange"
    /\ CallKey(call.kind, call.args) \in gone
    /\ http.kind = "resp" /\ http.status = 404
    /\ ret = Pair(None, Str("404 Client Error"))
    /\ raised = "none"

\* C13: for exchanges and queues, a read of a (vhost, name) whose last create
\* returned success, no delete having been attempted on it or on its virtual
\* host since, does not raise; when the broker answered the read, the call
\* returns (Outcome, None) and the body of the Outcome carries the durable flag
\* that the create sent and, for an exchange, the type that it sent.
C13_ReadReturnsCreated ==
    \A m \in made :
        (IsRead /\ call.kind \in {"Exchange", "Queue"} /\ m.key = CallKey(call.kind, call.args)) =>
            /\ raised = "none"
            /\ http.kind = "resp" =>
                  /\ ret.fst # None /\ ret.snd = None
                  /\ ret.fst.snd # None
                  /\ ret.fst.snd.items.durable = m.sent.items.durable
                  /\ call.kind = "Exchange" => ret.fst.snd.items.type = m.sent.items.type

\* a direct, durable exchange was created in the default virtual host and read back
C13_Witness ==
    /\ IsRead /\ call.kind = "Exchange" /\ call.args.vhost = "%2F"
    /\ [key |-> CallKey(call.kind, call.args),
        sent |-> Dict([type |-> "direct", durable |-> TRUE])] \in made
    /\ ret = Pair(Pair(200, Dict([name |-> "orders", vhost |-> "/", type |-> "direct",
                                  durable |-> TRUE])), None)

(***************************************************************************)
(* Properties of the POST /v1/exchanges route.                             *)
(***************************************************************************)
\* C14: the route answers 400 whenever Exchange.create returned no Outcome,
\* whatever the error text (an empty one included), and answers with the
\* success body only when Exchange.create returned an Outcome.
C14_ErrorAnswers400 ==
    (response # None /\ raised = "none") =>
        /\ ret.fst = None => response.status = 400
        /\ response.status = 200 => ret.fst # None

(***************************************************************************)
(* Properties of validate_password.                                        *)
(***************************************************************************)
AllTests ==
    {"test_length", "test_uppercase", "test_numbers", "test_special_characters",
     "test_pwned", "test_entropy"}

\* the rules a policy contains, and those of them the password violates
RulesOf(pol) == { t \in AllTests : Appends(t, pol) }
ViolatedRules(pol) == { t \in RulesOf(pol) : RunTest(t, password, pol, pwnedApi).fst }

\* the place of a rule in the order length, uppercase, numbers, special
\* characters, breaches, entropy
Rank(t) ==
    CASE t = "test_length" -> 1
      [] t = "test_uppercase" -> 2
      [] t = "test_numbers" -> 3
      [] t = "test_special_characters" -> 4
      [] t = "test_pwned" -> 5
      [] t = "test_entropy" -> 6

\* C15 as it is stated: for a policy of the caller, the reason returned is that
\* of the violated rule the policy declares first, and no rule the policy
\* declares after that one is evaluated.
C15_PolicyDeclaredOrder ==
    (verdict # None /\ policy # None /\ policy.items # <<>>) =>
        LET order == TestsOfItems(policy.items, policy)
            failing == { k \in DOMAIN order :
                           RunTest(order[k], password, policy, pwnedApi).fst }
        IN  failing # {} =>
                LET first == CHOOSE k \in failing : \A j \in failing : k <= j
                IN  /\ verdict = RunTest(order[first], password, policy, pwnedApi)
                    /\ \A e \in DOMAIN evaluated :
                           \E k \in 1 .. first : order[k] = evaluated[e]

\* C15: the rules are evaluated in the fixed order length, uppercase, numbers,
\* special characters, breaches, entropy, whatever the order in which the policy
\* declares them, and evaluation stops at the first failing rule: the reason
\* returned is that of the violated rule that comes first in this order, and no
\* rule that comes after it is evaluated.
C15_FixedOrder ==
    verdict # None =>
        LET pol == EffectivePolicy(policy)
            failing == ViolatedRules(pol)
        IN  /\ \A e, f \in DOMAIN evaluated : e < f => Rank(evaluated[e]) < Rank(evaluated[f])
            /\ failing # {} =>
                  \E t \in failing :
                      /\ \A u \in failing : Rank(t) <= Rank(u)
                      /\ verdict = RunTest(t, password, pol, pwnedApi)
                      /\ \A e \in DOMAIN evaluated : Rank(evaluated[e]) <= Rank(t)
                      /\ evaluated[Len(evaluated)] = t

\* a password too short and without a digit, under a policy that declares
\* min_numbers before min_length: the length rule is the one reported
C15_Witness ==
    /\ verdict = Pair(TRUE, "The password must be at least 2 characters long.")
    /\ policy = Dict(<< <<"min_numbers", 1>>, <<"min_length", 2>> >>)
    /\ password = <<"a">>
    /\ evaluated = <<"test_length">>

\* C16 as it is stated: for every policy given by the caller, failure is
\* reported, with the message of a violated rule, if the password violates a
\* rule the policy contains; "Password is valid." is reported only when it
\* violates none; and no rule absent from the caller's policy is applied.
C16_OnlyCallersRules ==
    (verdict # None /\ policy # None) =>
        /\ ViolatedRules(policy) # {} =>
              /\ verdict.fst
              /\ \E t \in ViolatedRules(policy) :
                     verdict = RunTest(t, password, policy, pwnedApi)
        /\ verdict = Pair(FALSE, "Password is valid.") => ViolatedRules(policy) = {}
        /\ \A e \in DOMAIN evaluated : evaluated[e] \in RulesOf(policy)

\* C16: the same, of the policy in force: the caller's policy when it has at
\* least one entry, DEFAULT_PASSWORD_POLICY when the caller gives none or an
\* empty one.  Failure is reported, with the message of a violated rule, if the
\* password violates a rule of the policy in force; "Password is valid." only
\* when it violates none; no rule absent from the policy in force is applied.
C16_RulesOfPolicyInForce ==
    verdict # None =>
        LET pol == IF policy = None \/ policy.items = <<>>
                   THEN DEFAULT_PASSWORD_POLICY ELSE policy
        IN  /\ ViolatedRules(pol) # {} =>
                  /\ verdict.fst
                  /\ \E t \in ViolatedRules(pol) :
                         verdict = RunTest(t, password, pol, pwnedApi)
            /\ verdict = Pair(FALSE, "Password is valid.") => ViolatedRules(pol) = {}
            /\ \A e \in DOMAIN evaluated : evaluated[e] \in RulesOf(pol)

\* a policy with min_special and allowed_specials only, a password with an
\* uppercase letter and no special character: the one rule is reported and no
\* other rule was applied
C16_Witness ==
    /\ verdict # None /\ verdict.fst
    /\ policy = Dict(<< <<"min_special", 1>>, <<"allowed_specials", <<"!">> >> >>)
    /\ password = <<"a", "A">>
    /\ evaluated = <<"test_special_characters">>

(***************************************************************************)
(* Properties of concurrent create calls.                                  *)
(***************************************************************************)
\* the request the arguments of thread t call for, by the path rules of the
\* management API
C10_OwnRequest(t) ==
    [verb |-> "PUT",
     url |-> "http://localhost:15672/api"
                \o (IF targs[t].kind = "Exchange" THEN "/exchanges/" ELSE "/queues/")
                \o targs[t].vhost \o "/" \o targs[t].name,
     json |-> IF targs[t].kind = "Exchange"
              THEN Dict([type |-> targs[t].type, durable |-> targs[t].durable])
              ELSE Dict([durable |-> targs[t].durable]),
     auth |-> <<"guest", "guest">>,
     timeout |-> 10]

\* C10: under every interleaving of create calls for distinct names, the
\* request of each call is the one its own arguments call for, a call the
\* broker accepted returns (its own status and body, None), a step of one call
\* changes nothing of another call, and no step writes the credential pair.
C10_NoCrossTalk ==
    /\ [](\A t \in Threads :
            /\ tpc[t] # "idle" => wire[t] = C10_OwnRequest(t)
            /\ (tpc[t] = "done" /\ answer[t].kind = "resp"
                    /\ 200 <= answer[t].status /\ answer[t].status < 300) =>
                  tret[t] = Pair(Pair(answer[t].status, None), None))
    /\ [][/\ auth' = auth
          /\ \A t \in Threads :
                tpc'[t] = tpc[t] =>
                    (targs'[t] = targs[t] /\ wire'[t] = wire[t]
                        /\ answer'[t] = answer[t] /\ tret'[t] = tret[t])]_vars

\* both calls are done, for different names, the broker having accepted both
\* with different answers
C10_Witness ==
    /\ \A t \in Threads : tpc[t] = "done"
    /\ answer[1].kind = "resp" /\ answer[1].status = 201
    /\ answer[2].kind = "resp" /\ answer[2].status = 204
    /\ tret[1] = Pair(Pair(201, None), None)
    /\ tret[2] = Pair(Pair(204, None), None)
    /\ wire[1].url # wire[2].url

(***************************************************************************)
(* Properties of the layer as a whole.                                     *)
(***************************************************************************)
\* C11: every create, read or delete call issues exactly one HTTP request,
\* whether it succeeds or fails; every publish() gets at most one message to the
\* broker, and none when basic_publish failed: nothing is sent a second time.
C11_NoRetries ==
    [][/\ (call' # None /\ call'.op \in {"create", "read", "delete"}) =>
              httpCount' = httpCount + 1
       /\ (pcall' # None /\ pcall'.op = "publish") =>
              /\ published' <= published + 1
              /\ pfault' # "none" => published' = published]_vars

\* a create that failed on the transport has issued one request
C11_Witness ==
    /\ call # None /\ call.op = "create"
    /\ http.kind = "exc"
    /\ ret.tag = "tuple" /\ ret.fst = None
    /\ httpCount = 1

====
